---------------------------- MODULE Spec2Model ----------------------------
(***************************************************************************)
(* Match discovery, the Match store, the scoring services, the sessions,  *)
(* the messages and the dates of the ailove repository.                   *)
(*                                                                         *)
(* Spec       : discovery runs (GET /api/matches/discover) interleaved    *)
(*              with the status operations of the Match store.            *)
(* SpecStatus : the status operations and the mutual-match query, over a  *)
(*              table of two rows.                                        *)
(* SpecRBS    : the score combiner (RBSService), built in any environment *)
(*              and applied to bounded inputs.                            *)
(* SpecIG     : the information gain of a profile that grows by a trait.  *)
(* SpecSR     : the subspace resonance of two embeddings.                 *)
(* SpecSC     : the safety evaluation of two users.                       *)
(* SpecCU     : the causal-uplift prediction for a feature vector.         *)
(* SpecSRBuild: the construction of the resonance service over a table     *)
(*              of subspaces.                                              *)
(* SpecAuth   : login, logout and two concurrent token refreshes.          *)
(* SpecFormula: the RBS formula applied to component scores.               *)
(* SpecSizes  : the page limit and the candidates fetched and examined.    *)
(* SpecAge    : the age-gap penalty of two pairs of users.                 *)
(* SpecMsg    : messages sent while match rows are accepted and rejected.  *)
(* SpecDate   : dates proposed, confirmed, cancelled and completed.        *)
(*                                                                         *)
(* Numbers of the TypeScript code are fixed-point integers in hundredths   *)
(* (0.45 is 45); NaN is a value of its own, for which every comparison is  *)
(* false.                                                                  *)
(***************************************************************************)
EXTENDS Integers, Sequences, FiniteSets, TLC

\* ------------------------------------------------------------------ bounds
MaxLimit == 2
MaxTime == 1
MaxStatusTime == 2

\* ------------------------------------------------------- program constants
KnnLimit == 100
SliceSize == 50

\* ids that tokens are issued for and that the vector index may hold
Users == {"u1", "u2"}

\* concurrent requests to GET /api/matches/discover; the slots are taken in
\* order, so that a behaviour and its renaming are explored once
RunIds == {1, 2}

\* NaN, encoded outside the range of every number of the model; comparisons
\* and arithmetic go through the operators below, which treat it as IEEE does
NaN == -1000000

\* a null or undefined Date, and the result of a lookup that finds no row
NoDate == -1
NoRow == 0
NoScore == [rbs |-> 0, sr |-> 0, cu |-> 0, ig |-> 0, sc |-> 0]

Statuses == {"pending", "accepted", "rejected", "expired"}

\* limit values that validatePagination lets through: the numbers from 1 up,
\* and NaN, which parseInt returns for a text that is no number and for
\* which neither `limit < 1` nor `limit > 100` holds
Limits == (1..MaxLimit) \cup {NaN}

Range(s) == {s[i] : i \in DOMAIN s}

\* the lists that hold every element of S once
RECURSIVE Orderings(_)
Orderings(S) ==
  IF S = {} THEN {<< >>}
  ELSE UNION {{<<x>> \o p : p \in Orderings(S \ {x})} : x \in S}

\* what the scoring call of the discovery route returns for a candidate, in
\* hundredths; the profiles do not change while the requests are served
CalculateScore(userId, candidateId) ==
  IF candidateId = "u1"
  THEN [rbs |-> 80, sr |-> 85, cu |-> 70, ig |-> 85, sc |-> 15]
  ELSE [rbs |-> 85, sr |-> 90, cu |-> 75, ig |-> 80, sc |-> 10]

\* ------------------------------------------------- numbers of the program
\* Scores and weights are in hundredths; ages are years, distances km.

IsNaN(x) == x = NaN

Plus(a, b) == IF IsNaN(a) \/ IsNaN(b) THEN NaN ELSE a + b
Minus(a, b) == IF IsNaN(a) \/ IsNaN(b) THEN NaN ELSE a - b
\* the product of two numbers in hundredths, in hundredths
Times(a, b) == IF IsNaN(a) \/ IsNaN(b) THEN NaN ELSE (a * b) \div 100
\* a / b for an integer a and a divisor b > 0, in hundredths
Ratio(a, b) == IF IsNaN(a) THEN NaN ELSE (a * 100) \div b

Less(a, b) == ~IsNaN(a) /\ ~IsNaN(b) /\ a < b
LessEq(a, b) == ~IsNaN(a) /\ ~IsNaN(b) /\ a <= b
Greater(a, b) == ~IsNaN(a) /\ ~IsNaN(b) /\ a > b

MathAbs(x) == IF IsNaN(x) THEN NaN ELSE IF x < 0 THEN -x ELSE x
MathMin(a, b) == IF IsNaN(a) \/ IsNaN(b) THEN NaN ELSE IF a <= b THEN a ELSE b
MathMax(a, b) == IF IsNaN(a) \/ IsNaN(b) THEN NaN ELSE IF a >= b THEN a ELSE b

\* clamp(value, min, max)
Clamp(value, min, max) == MathMax(min, MathMin(max, value))

\* ---------------------------------------------------------- configuration

\* an environment variable that is not set
Undefined == "undefined"

\* parseFloat of the texts the environment may hold
ParseFloat(text) ==
  CASE text = "0" -> 0
    [] text = "0.15" -> 15
    [] text = "0.25" -> 25
    [] text = "0.30" -> 30
    [] text = "0.45" -> 45
    [] text = "0.5" -> 50
    [] text = "-0.1" -> -10
    [] OTHER -> NaN

\* process.env.X ?? fallback
OrElse(text, fallback) == IF text = Undefined THEN fallback ELSE text

\* config.rbs.weights
ConfigWeights(env) ==
  [ alpha |-> ParseFloat(OrElse(env.RBS_ALPHA, "0.45")),
    beta |-> ParseFloat(OrElse(env.RBS_BETA, "0.30")),
    gamma |-> ParseFloat(OrElse(env.RBS_GAMMA, "0.25")),
    delta |-> ParseFloat(OrElse(env.RBS_DELTA, "0.15")) ]

DefaultEnv ==
  [ RBS_ALPHA |-> Undefined, RBS_BETA |-> Undefined,
    RBS_GAMMA |-> Undefined, RBS_DELTA |-> Undefined ]

\* environments the process may be started in
Envs ==
  [ RBS_ALPHA : {Undefined, "", "abc", "0", "0.5"},
    RBS_BETA : {Undefined, "0.25", "-0.1"},
    RBS_GAMMA : {Undefined, "0.25", "abc"},
    RBS_DELTA : {Undefined, "0", "0.5", "abc"} ]

\* ------------------------------------------------------------- RBSService

\* validateWeights returns without throwing
ValidateWeights(w) ==
  LET sum == Plus(Plus(w.alpha, w.beta), w.gamma)
  IN /\ ~Greater(MathAbs(Minus(sum, 100)), 1)
     /\ ~(Less(w.delta, 0) \/ Greater(w.delta, 30))
     /\ ~(\/ LessEq(w.alpha, 0) \/ LessEq(w.beta, 0)
          \/ LessEq(w.gamma, 0) \/ Less(w.delta, 0))

\* ------------------------------------------------ the component services

\* SubspaceResonanceService.calculate, from the weighted sum of the cosine
\* similarities of the subspaces; validateEmbeddings has let only finite
\* vectors through
CalculateSR(weightedSum) == Clamp(weightedSum, 0, 100)

\* CausalUpliftService.predict, from the two sigmoid outputs
TreatmentEffect(mu1, mu0) == Clamp(Minus(mu1, mu0), 0, 100)

\* A profile is given by the number of its dimensions that hold traits, each
\* of them MinTraitsPerDimension traits, and the confidence of its traits.
MinTraitsPerDimension == 5
Dimensions == 5
TotalExpectedTraits == Dimensions * MinTraitsPerDimension

TotalTraits(profile) == profile.dims * MinTraitsPerDimension

\* Math.min(totalTraits / TOTAL_EXPECTED_TRAITS, 1.0)
Coverage(profile) == MathMin(Ratio(TotalTraits(profile), TotalExpectedTraits), 100)

\* totalTraits > 0 ? totalConfidence / totalTraits : 0
AvgConfidence(profile) ==
  IF TotalTraits(profile) > 0
  THEN IF IsNaN(profile.confidence) THEN NaN
       ELSE (TotalTraits(profile) * profile.confidence) \div TotalTraits(profile)
  ELSE 0

\* calculateEntropyReduction: no dimension covered gives 0, one gives an
\* entropy of 0, all of them equally covered give the maximum
EntropyReduction(profile) == IF profile.dims = Dimensions THEN 100 ELSE 0

\* InformationGainService.calculateSingle(profile).score
CalculateSingle(profile) ==
  Clamp(Times(Plus(Times(Coverage(profile), 60), Times(AvgConfidence(profile), 40)),
              Plus(100, Times(EntropyReduction(profile), 10))),
        0, 100)

\* InformationGainService.calculate
CalculateIG(profile1, profile2) ==
  LET sum == Plus(CalculateSingle(profile1), CalculateSingle(profile2))
  IN IF IsNaN(sum) THEN NaN ELSE sum \div 2

RedFlagWeight == 60
DistanceWeight == 25
AgeGapWeight == 15
MaxSafeDistance == 50
MaxSafeAgeGap == 15

\* RED_FLAG_SEVERITY[flag] ?? 0.5
Severity(flag) ==
  CASE flag = "fake_profile" -> 100
    [] flag = "spam_behavior" -> 60
    [] OTHER -> 50

\* evaluateRedFlags: the greatest severity of the flags of the two users
EvaluateRedFlags(flags1, flags2) ==
  LET sev == {Severity(f) : f \in flags1 \cup flags2}
  IN IF sev = {} THEN 0 ELSE CHOOSE m \in sev : \A x \in sev : x <= m

\* calculateDistancePenalty, for users without a maxDistance preference
CalculateDistancePenalty(distance) ==
  IF Greater(distance, MaxSafeDistance)
  THEN MathMin(Minus(Ratio(distance, MaxSafeDistance), 100), 100)
  ELSE MathMin(Ratio(distance, MaxSafeDistance), 100)

\* calculateAgeGapPenalty, for users without age preferences
CalculateAgeGapPenalty(age1, age2) ==
  LET ageGap == MathAbs(Minus(age1, age2))
  IN IF Greater(ageGap, MaxSafeAgeGap)
     THEN MathMin(Ratio(Minus(ageGap, MaxSafeAgeGap), 10), 100)
     ELSE Ratio(ageGap, MaxSafeAgeGap)

\* SafetyConstraintsService.calculate
CalculateSC(user1, user2, distance) ==
  Clamp(Plus(Plus(Times(RedFlagWeight,
                        EvaluateRedFlags(user1.redFlags, user2.redFlags)),
                  Times(DistanceWeight, CalculateDistancePenalty(distance))),
             Times(AgeGapWeight, CalculateAgeGapPenalty(user1.age, user2.age))),
        0, 100)

\* validateFeatures lets the features of the causal model through: those
\* handed in are finite, those extractCausalFeatures derives hold the ages
\* and the average confidences
FeaturesFinite(input) ==
  \/ input.causalFeatures
  \/ /\ ~IsNaN(input.user1.age) /\ ~IsNaN(input.user2.age)
     /\ ~IsNaN(AvgConfidence(input.user1.profile5D))
     /\ ~IsNaN(AvgConfidence(input.user2.profile5D))

\* a combiner that adds the safety term instead of subtracting it
RBSScoreAdding(w, input) ==
  LET sr == CalculateSR(input.weightedSum)
      cu == TreatmentEffect(input.mu1, input.mu0)
      ig == CalculateIG(input.user1.profile5D, input.user2.profile5D)
      sc == CalculateSC(input.user1, input.user2, input.distance)
  IN [ returned |-> TRUE, threw |-> FALSE,
       total |-> Clamp(Plus(Plus(Plus(Times(w.alpha, sr), Times(w.beta, cu)),
                                 Times(w.gamma, ig)),
                            Times(w.delta, sc)),
                       0, 100),
       sr |-> sr, cu |-> cu, ig |-> ig, sc |-> sc ]

\* the RBSScore RBSService.calculate returns for an input, under weights w
RBSScore(w, input) ==
  LET sr == CalculateSR(input.weightedSum)
      cu == TreatmentEffect(input.mu1, input.mu0)
      ig == CalculateIG(input.user1.profile5D, input.user2.profile5D)
      sc == CalculateSC(input.user1, input.user2, input.distance)
  IN [ returned |-> TRUE, threw |-> FALSE,
       total |-> Clamp(Minus(Plus(Plus(Times(w.alpha, sr), Times(w.beta, cu)),
                                  Times(w.gamma, ig)),
                             Times(w.delta, sc)),
                       0, 100),
       sr |-> sr, cu |-> cu, ig |-> ig, sc |-> sc ]

NoResult ==
  [returned |-> FALSE, threw |-> FALSE,
   total |-> 0, sr |-> 0, cu |-> 0, ig |-> 0, sc |-> 0]

Profiles == [dims : {0, 1, Dimensions}, confidence : {NaN, 80}]

\* inputs of RBSService.calculate
Inputs ==
  [ weightedSum : {-20, 50, 100},
    mu1 : {30, 70},
    mu0 : {30, 70},
    causalFeatures : BOOLEAN,
    distance : {25, 80},
    user1 : [age : {NaN, 25, 60}, redFlags : {{}, {"spam_behavior"}},
             profile5D : Profiles],
    user2 : [age : {30}, redFlags : {{}, {"fake_profile"}},
             profile5D : {[dims |-> Dimensions, confidence |-> 50]}] ]

VARIABLES
  matches,        \* the matches table: row id |-> row
  users,          \* ids that have a row in the users table
  indexed,        \* ids that have a vector in the index
  now,            \* the clock: the instant of the latest status request
  pc,             \* per discovery run: position in GET
  user,           \* per run: the authenticated user
  limit,          \* per run: validated limit
  similarUsers,   \* per run: similarUsers.slice(0, 50)
  idx,            \* per run: position of the loop in similarUsers
  rbsScore,       \* per run: score of the candidate being processed
  scoredMatches,  \* per run: list of [userId, rbsScore] pushed so far
  response,       \* per run: the response returned
  absent,         \* per run: candidates whose existence check found no row
  skipped,        \* per run: candidates skipped because a row existed
  after,          \* per run: runs that had returned when this one started
  accept,         \* the POST /api/matches/:id/accept request in flight
  weights,        \* config.rbs.weights, as loaded from the environment
  service,        \* the RBSService: "unbuilt", "built", or "failed"
  result,         \* what RBSService.calculate returned, if it has returned
  probe,          \* a component service called on its own: arguments and outcome
  messages,       \* the messages table, in order of creation
  sessions,       \* the session cache: user id |-> refresh token stored
  refreshes,      \* per refresh call: position in AuthService.refresh
  dates,          \* the dates table: row id |-> row
  dateCall        \* the last DateCoordinationService call and its outcome

vars == <<matches, users, indexed, now, pc, user, limit, similarUsers, idx, rbsScore,
          scoredMatches, response, absent, skipped, after, accept,
          weights, service, result, probe,
          messages, sessions, refreshes, dates, dateCall>>

rbsVars == <<weights, service, result, probe>>

appVars == <<messages, sessions, refreshes, dates, dateCall>>

\* the absent token, the refresh calls and their rest state, the rest state
\* of the date call
NoToken == [userId |-> "", iat |-> -1]
NoRefresh == [pc |-> "idle", presented |-> NoToken, issued |-> NoToken]
NoDateCall == [op |-> "", dateId |-> 0, outcome |-> ""]
Calls == {1, 2}

runVars == <<pc, user, limit, similarUsers, idx, rbsScore, scoredMatches,
             response, absent, skipped, after>>

\* ------------------------------------------------------------ Match store

Min(a, b) == IF a <= b THEN a ELSE b

\* Array.prototype.slice(0, n)
Slice(s, n) == SubSeq(s, 1, Min(n, Len(s)))

FindByUserPair(userId, matchedUserId) ==
  IF \E id \in DOMAIN matches :
       matches[id].userId = userId /\ matches[id].matchedUserId = matchedUserId
  THEN CHOOSE id \in DOMAIN matches :
       matches[id].userId = userId /\ matches[id].matchedUserId = matchedUserId
  ELSE NoRow

\* a table without the unique index: every insert goes through
NoUniqueIndex(userId, matchedUserId) == TRUE

\* the unique index on (user_id, matched_user_id) lets an insert through
UniqueOk(userId, matchedUserId) ==
  \A id \in DOMAIN matches :
    ~(matches[id].userId = userId /\ matches[id].matchedUserId = matchedUserId)

\* the row MatchRepository.create writes for its input
NewRow(input) ==
  [ userId |-> input.userId,
    matchedUserId |-> input.matchedUserId,
    rbsScore |-> input.rbsScore,
    srScore |-> input.srScore,
    cuScore |-> input.cuScore,
    igScore |-> input.igScore,
    scScore |-> input.scScore,
    status |-> "pending",
    viewedAt |-> NoDate,
    respondedAt |-> NoDate,
    expiresAt |-> input.expiresAt ]

\* the object the discovery route hands to create: it carries no expiresAt
DiscoverInput(r, c) ==
  [ userId |-> user[r],
    matchedUserId |-> c,
    rbsScore |-> rbsScore[r].rbs,
    srScore |-> rbsScore[r].sr,
    cuScore |-> rbsScore[r].cu,
    igScore |-> rbsScore[r].ig,
    scScore |-> rbsScore[r].sc,
    expiresAt |-> NoDate ]

\* rows the table may hold before any request is served
SeedRow ==
  [ userId |-> "u2", matchedUserId |-> "u1",
    rbsScore |-> 70, srScore |-> 75, cuScore |-> 60, igScore |-> 80,
    scScore |-> 20, status |-> "pending", viewedAt |-> NoDate,
    respondedAt |-> NoDate, expiresAt |-> 0 ]

\* a second row, which expires one instant later
SeedLate ==
  [ userId |-> "u1", matchedUserId |-> "u2",
    rbsScore |-> 85, srScore |-> 90, cuScore |-> 75, igScore |-> 80,
    scScore |-> 10, status |-> "pending", viewedAt |-> NoDate,
    respondedAt |-> NoDate, expiresAt |-> 1 ]

\* the tables and the index before any request is served: a match row
\* references two users rows
Worlds ==
  { [users |-> Users, indexed |-> Users, matches |-> <<SeedRow>>],
    [users |-> {"u1"}, indexed |-> Users, matches |-> << >>],
    [users |-> Users, indexed |-> {"u1"}, matches |-> <<SeedRow>>] }

\* ids a request may name: those of the rows, and one that no row has
MatchIds == 1..(Len(matches) + 1)

\* ------------------------------------------------------- discovery (GET)

\* a loop that breaks one row too late, and one that breaks one row too early
LimitPassed(n, lim) == lim # NaN /\ n > lim
LimitNear(n, lim) == lim # NaN /\ n + 1 >= lim

\* scoredMatches.length >= limit, which is false for a limit of NaN
LimitReached(n, lim) == lim # NaN /\ n >= lim

\* scoredMatches.sort((a, b) => b.rbsScore - a.rbsScore): stable, descending
RECURSIVE InsertDesc(_, _)
InsertDesc(sorted, m) ==
  IF sorted = << >> THEN <<m>>
  ELSE IF Head(sorted).rbsScore >= m.rbsScore
       THEN <<Head(sorted)>> \o InsertDesc(Tail(sorted), m)
       ELSE <<m>> \o sorted

\* a list left in the order of its production
Unsorted(s) == s

RECURSIVE SortDesc(_)
SortDesc(s) ==
  IF s = << >> THEN << >>
  ELSE InsertDesc(SortDesc(SubSeq(s, 1, Len(s) - 1)), s[Len(s)])

\* an error in place of the insufficient-data signal
FailureResponse == [kind |-> "error", matches |-> << >>]

OkResponse(list) == [kind |-> "ok", matches |-> SortDesc(list)]
EmptyResponse == [kind |-> "ok", matches |-> << >>]
InsufficientResponse == [kind |-> "insufficient", matches |-> << >>]
ErrorResponse == [kind |-> "error", matches |-> << >>]
NoResponse == [kind |-> "none", matches |-> << >>]

Returned == {r \in RunIds : pc[r] = "done"}

\* the route returns `resp`
Return(r, resp) ==
  /\ pc' = [pc EXCEPT ![r] = "done"]
  /\ response' = [response EXCEPT ![r] = resp]

\* the loop moves on to the next candidate, or leaves and the route returns
Continue(r, list) ==
  IF idx[r] + 1 > Len(similarUsers[r])
  THEN /\ Return(r, OkResponse(list))
       /\ idx' = idx
  ELSE /\ pc' = [pc EXCEPT ![r] = "loop"]
       /\ idx' = [idx EXCEPT ![r] = idx[r] + 1]
       /\ response' = response

\* the request takes the next free slot
Free(r) == pc[r] = "idle" /\ \A q \in RunIds : q < r => pc[q] # "idle"

\* searchSimilar(vector, 100): the nearest points of the index, the nearest
\* first; the order is the index's
SearchSimilar(n) == {Slice(p, n) : p \in Orderings(indexed)}

\* getVector finds no embedding for the user
DiscoverNoVector(r) ==
  /\ Free(r)
  /\ \E u \in Users \ indexed, lim \in Limits :
       /\ user' = [user EXCEPT ![r] = u]
       /\ limit' = [limit EXCEPT ![r] = lim]
  /\ after' = [after EXCEPT ![r] = Returned]
  /\ Return(r, InsufficientResponse)
  /\ UNCHANGED <<matches, users, indexed, now, similarUsers, idx, rbsScore,
                 scoredMatches, absent, skipped, accept, rbsVars, appVars>>

\* searchSimilar throws
DiscoverSearchFails(r) ==
  /\ Free(r)
  /\ \E u \in indexed, lim \in Limits :
       /\ user' = [user EXCEPT ![r] = u]
       /\ limit' = [limit EXCEPT ![r] = lim]
  /\ after' = [after EXCEPT ![r] = Returned]
  /\ Return(r, ErrorResponse)
  /\ UNCHANGED <<matches, users, indexed, now, similarUsers, idx, rbsScore,
                 scoredMatches, absent, skipped, accept, rbsVars, appVars>>

\* searchSimilar returns candidates; no candidate or no current user ends
\* the request with an empty list, otherwise the loop starts
DiscoverBegin(r) ==
  /\ Free(r)
  /\ \E u \in indexed, lim \in Limits, found \in SearchSimilar(KnnLimit) :
       /\ user' = [user EXCEPT ![r] = u]
       /\ limit' = [limit EXCEPT ![r] = lim]
       /\ similarUsers' = [similarUsers EXCEPT ![r] = Slice(found, SliceSize)]
       /\ IF Len(found) = 0 \/ u \notin users
          THEN Return(r, EmptyResponse)
          ELSE /\ pc' = [pc EXCEPT ![r] = "loop"]
               /\ response' = response
  /\ after' = [after EXCEPT ![r] = Returned]
  /\ UNCHANGED <<matches, users, indexed, now, idx, rbsScore, scoredMatches,
                 absent, skipped, accept, rbsVars, appVars>>

Candidate(r) == similarUsers[r][idx[r]]

\* findByUserPair finds a row: continue
LoopSkipExisting(r) ==
  /\ pc[r] = "loop"
  /\ FindByUserPair(user[r], Candidate(r)) # NoRow
  /\ skipped' = [skipped EXCEPT ![r] = @ \cup {Candidate(r)}]
  /\ Continue(r, scoredMatches[r])
  /\ UNCHANGED <<matches, users, indexed, now, user, limit, similarUsers, rbsScore,
                 scoredMatches, absent, after, accept, rbsVars, appVars>>

\* no row, but the candidate has no users row: continue
LoopSkipMissing(r) ==
  /\ pc[r] = "loop"
  /\ FindByUserPair(user[r], Candidate(r)) = NoRow
  /\ Candidate(r) \notin users
  /\ absent' = [absent EXCEPT ![r] = @ \cup {Candidate(r)}]
  /\ Continue(r, scoredMatches[r])
  /\ UNCHANGED <<matches, users, indexed, now, user, limit, similarUsers, rbsScore,
                 scoredMatches, skipped, after, accept, rbsVars, appVars>>

\* no row, the candidate exists, the scoring call returns a score
LoopScore(r) ==
  /\ pc[r] = "loop"
  /\ FindByUserPair(user[r], Candidate(r)) = NoRow
  /\ Candidate(r) \in users
  /\ rbsScore' = [rbsScore EXCEPT ![r] = CalculateScore(user[r], Candidate(r))]
  /\ absent' = [absent EXCEPT ![r] = @ \cup {Candidate(r)}]
  /\ pc' = [pc EXCEPT ![r] = "create"]
  /\ UNCHANGED <<matches, users, indexed, now, user, limit, similarUsers, idx,
                 scoredMatches, response, skipped, after, accept, rbsVars, appVars>>

\* no row, the candidate exists, the scoring call throws
LoopScoreFails(r) ==
  /\ pc[r] = "loop"
  /\ FindByUserPair(user[r], Candidate(r)) = NoRow
  /\ Candidate(r) \in users
  /\ absent' = [absent EXCEPT ![r] = @ \cup {Candidate(r)}]
  /\ Return(r, ErrorResponse)
  /\ UNCHANGED <<matches, users, indexed, now, user, limit, similarUsers, idx,
                 rbsScore, scoredMatches, skipped, after, accept, rbsVars, appVars>>

\* matchRepo.create inserts the row; push; break when the limit is reached
CreateOk(r) ==
  /\ pc[r] = "create"
  /\ UniqueOk(user[r], Candidate(r))
  /\ matches' = Append(matches, NewRow(DiscoverInput(r, Candidate(r))))
  /\ LET list == Append(scoredMatches[r],
                        [userId |-> Candidate(r), rbsScore |-> rbsScore[r].rbs])
     IN /\ scoredMatches' = [scoredMatches EXCEPT ![r] = list]
        /\ IF LimitReached(Len(list), limit[r])
           THEN Return(r, OkResponse(list)) /\ idx' = idx
           ELSE Continue(r, list)
  /\ UNCHANGED <<users, indexed, now, user, limit, similarUsers, rbsScore, absent,
                 skipped, after, accept, rbsVars, appVars>>

\* the insert hits the unique index (P2002): 'Match already exists' is thrown
CreateExists(r) ==
  /\ pc[r] = "create"
  /\ ~UniqueOk(user[r], Candidate(r))
  /\ Return(r, ErrorResponse)
  /\ UNCHANGED <<matches, users, indexed, now, user, limit, similarUsers, idx,
                 rbsScore, scoredMatches, absent, skipped, after, accept,
                 rbsVars, appVars>>

\* the insert fails for another reason; the error is rethrown
CreateFails(r) ==
  /\ pc[r] = "create"
  /\ Return(r, ErrorResponse)
  /\ UNCHANGED <<matches, users, indexed, now, user, limit, similarUsers, idx,
                 rbsScore, scoredMatches, absent, skipped, after, accept,
                 rbsVars, appVars>>

\* ------------------------------------------------------ status operations
\* Each status request is served at an instant of its own, now + 1, which is
\* what `new Date()` returns while it is served.

\* an update that also writes the combined score
UpdateRescoring(matchId, input) ==
  [matches EXCEPT ![matchId] =
     [@ EXCEPT !.status = IF input.status # "" THEN input.status ELSE @,
               !.rbsScore = 0]]

\* MatchRepository.update: only the fields present in the input are written
Update(matchId, input) ==
  [matches EXCEPT ![matchId] =
     [@ EXCEPT !.status = IF input.status # "" THEN input.status ELSE @,
               !.viewedAt = IF input.viewedAt # NoDate THEN input.viewedAt ELSE @,
               !.respondedAt = IF input.respondedAt # NoDate
                               THEN input.respondedAt ELSE @]]

NoAccept == [pc |-> "idle", matchId |-> NoRow, code |-> 0]

\* POST accept, up to the response that refuses the request
AcceptRefused(u, matchId) ==
  /\ accept.pc = "idle"
  /\ \/ /\ matchId \notin DOMAIN matches
        /\ accept' = [pc |-> "idle", matchId |-> NoRow, code |-> 404]
     \/ /\ matchId \in DOMAIN matches
        /\ matches[matchId].matchedUserId # u
        /\ accept' = [pc |-> "idle", matchId |-> NoRow, code |-> 403]
     \/ /\ matchId \in DOMAIN matches
        /\ matches[matchId].matchedUserId = u
        /\ matches[matchId].status \in {"accepted", "rejected"}
        /\ accept' = [pc |-> "idle", matchId |-> NoRow, code |-> 400]
  /\ now' = now + 1
  /\ UNCHANGED <<matches, users, indexed, runVars, rbsVars, appVars>>

\* a route that goes to the update whatever the status of the row
AcceptUnchecked(u, matchId) ==
  /\ accept.pc = "idle"
  /\ matchId \in DOMAIN matches
  /\ matches[matchId].matchedUserId = u
  /\ accept' = [pc |-> "update", matchId |-> matchId, code |-> 0]
  /\ now' = now + 1
  /\ UNCHANGED <<matches, users, indexed, runVars, rbsVars, appVars>>

\* POST accept, up to the await of matchRepo.update: the checks have passed
AcceptChecked(u, matchId) ==
  /\ accept.pc = "idle"
  /\ matchId \in DOMAIN matches
  /\ matches[matchId].matchedUserId = u
  /\ matches[matchId].status \notin {"accepted", "rejected"}
  /\ accept' = [pc |-> "update", matchId |-> matchId, code |-> 0]
  /\ now' = now + 1
  /\ UNCHANGED <<matches, users, indexed, runVars, rbsVars, appVars>>

\* POST accept: matchRepo.update(matchId, {status: 'accepted'}) and 200
AcceptUpdate ==
  /\ accept.pc = "update"
  /\ matches' = Update(accept.matchId,
                       [status |-> "accepted", viewedAt |-> NoDate,
                        respondedAt |-> NoDate])
  /\ accept' = [pc |-> "idle", matchId |-> NoRow, code |-> 200]
  /\ UNCHANGED <<users, indexed, now, runVars, rbsVars, appVars>>

\* MatchRepository.accept
RepoAccept(matchId) ==
  /\ matchId \in DOMAIN matches
  /\ matches' = Update(matchId, [status |-> "accepted", viewedAt |-> NoDate,
                                 respondedAt |-> now + 1])
  /\ now' = now + 1
  /\ UNCHANGED <<users, indexed, runVars, accept, rbsVars, appVars>>

\* MatchRepository.reject
RepoReject(matchId) ==
  /\ matchId \in DOMAIN matches
  /\ matches' = Update(matchId, [status |-> "rejected", viewedAt |-> NoDate,
                                 respondedAt |-> now + 1])
  /\ now' = now + 1
  /\ UNCHANGED <<users, indexed, runVars, accept, rbsVars, appVars>>

\* MatchRepository.markAsViewed
MarkAsViewed(matchId) ==
  /\ matchId \in DOMAIN matches
  /\ matches' = Update(matchId, [status |-> "", viewedAt |-> now + 1,
                                 respondedAt |-> NoDate])
  /\ now' = now + 1
  /\ UNCHANGED <<users, indexed, runVars, accept, rbsVars, appVars>>

\* MatchRepository.update with a status chosen by the caller
UpdateStatus(matchId, st) ==
  /\ matchId \in DOMAIN matches
  /\ matches' = Update(matchId, [status |-> st, viewedAt |-> NoDate,
                                 respondedAt |-> NoDate])
  /\ now' = now + 1
  /\ UNCHANGED <<users, indexed, runVars, accept, rbsVars, appVars>>

\* MatchRepository.expireOldMatches: pending rows with expiresAt < now; a
\* row without expiresAt does not satisfy the comparison
ExpireOldMatches ==
  /\ matches' = [id \in DOMAIN matches |->
                   IF /\ matches[id].status = "pending"
                      /\ matches[id].expiresAt # NoDate
                      /\ matches[id].expiresAt < now + 1
                   THEN [matches[id] EXCEPT !.status = "expired"]
                   ELSE matches[id]]
  /\ now' = now + 1
  /\ UNCHANGED <<users, indexed, runVars, accept, rbsVars, appVars>>

\* a query that ignores the status of the reverse row
FindMutualMatchesOneWay(userId) ==
  { id \in DOMAIN matches :
      /\ matches[id].userId = userId
      /\ matches[id].status = "accepted"
      /\ FindByUserPair(matches[id].matchedUserId, userId) # NoRow }

\* MatchRepository.findMutualMatches(userId): the ids of the rows it returns
FindMutualMatches(userId) ==
  LET userAccepted == { id \in DOMAIN matches :
                          /\ matches[id].userId = userId
                          /\ matches[id].status = "accepted" }
  IN { id \in userAccepted :
         LET reverseMatch == FindByUserPair(matches[id].matchedUserId, userId)
         IN /\ reverseMatch # NoRow
            /\ matches[reverseMatch].status = "accepted" }

\* GET /api/matches/mutual for userId, served on a store that no other
\* request changes meanwhile
MutualMatches(userId) ==
  /\ probe' = [ called |-> TRUE, userId |-> userId, at |-> now,
                mutual |-> FindMutualMatches(userId) ]
  /\ UNCHANGED <<matches, users, indexed, now, runVars, accept,
                 weights, service, result, appVars>>

\* ------------------------------------- InformationGainService, trait by trait
\* A UserProfile5D as its five maps: per dimension the confidences of its
\* traits, in hundredths and in insertion order. The results are in
\* ten-thousandths.

MaxTraits == 3

DimensionOrder == <<"values", "interests", "communication", "lifestyle", "goals">>

EmptyProfile5D == [d \in Range(DimensionOrder) |-> << >>]

Confidences == {0, 50, 100}

RECURSIVE SumSeq(_)
SumSeq(s) == IF s = << >> THEN 0 ELSE Head(s) + SumSeq(Tail(s))

\* Math.log2 of the integers that occur, in ten-thousandths
Log2(n) ==
  CASE n = 1 -> 0
    [] n = 2 -> 10000
    [] n = 3 -> 15850
    [] n = 4 -> 20000
    [] n = 5 -> 23219
    [] n = 6 -> 25850
    [] n = 7 -> 28074
    [] n = 8 -> 30000

\* totalTraits and totalConfidence of calculateSingle
TraitCount(profile) ==
  SumSeq([i \in DOMAIN DimensionOrder |-> Len(profile[DimensionOrder[i]])])
ConfidenceSum(profile) ==
  SumSeq([i \in DOMAIN DimensionOrder |-> SumSeq(profile[DimensionOrder[i]])])

\* Math.min(traitCount / MIN_TRAITS_PER_DIMENSION, 1.0), in fifths
DimensionCoverages(profile) ==
  [i \in DOMAIN DimensionOrder |->
     Min(Len(profile[DimensionOrder[i]]), MinTraitsPerDimension)]

\* calculateEntropyReduction: -sum p*log2(p) over the covered dimensions,
\* p = coverage / total, divided by log2 of the number of dimensions
CalculateEntropyReduction(dimensionCoverages) ==
  LET total == SumSeq(dimensionCoverages)
      terms == [i \in DOMAIN dimensionCoverages |->
                  IF dimensionCoverages[i] > 0
                  THEN dimensionCoverages[i]
                       * (Log2(total) - Log2(dimensionCoverages[i]))
                  ELSE 0]
  IN IF total = 0 THEN 0
     ELSE (SumSeq(terms) * 10000) \div (total * Log2(Len(dimensionCoverages)))

\* InformationGainService.calculateDetailed(profile)
CalculateDetailed(profile) ==
  LET totalTraits == TraitCount(profile)
      coverage == Min((totalTraits * 10000) \div TotalExpectedTraits, 10000)
      avgConfidence == IF totalTraits > 0
                       THEN (ConfidenceSum(profile) * 100) \div totalTraits
                       ELSE 0
      entropyReduction == CalculateEntropyReduction(DimensionCoverages(profile))
      value == ((((coverage * 60) + (avgConfidence * 40)) \div 100)
                * (10000 + (entropyReduction \div 10))) \div 10000
  IN [ score |-> IF value < 0 THEN 0 ELSE Min(value, 10000),
       coverage |-> coverage,
       avgConfidence |-> avgConfidence,
       entropyReduction |-> entropyReduction ]

\* dimensionMap.set(traitKey, trait) on a profile that lacks the key, with
\* calculateSingle before and after, as validateMonotonicity does
SetTrait(dimension, confidence) ==
  /\ TraitCount(probe.profile5D) < MaxTraits
  /\ LET added == [probe.profile5D EXCEPT ![dimension] = Append(@, confidence)]
     IN probe' = [ called |-> TRUE,
                   profile5D |-> added,
                   igBefore |-> CalculateDetailed(probe.profile5D),
                   igAfter |-> CalculateDetailed(added) ]
  /\ UNCHANGED <<matches, users, indexed, now, runVars, accept,
                 weights, service, result, appVars>>

\* ----------------------------------- SubspaceResonanceService, on embeddings
\* The embedding is scaled down: the five subspaces keep their order and
\* weights (in hundredths), the values subspace has two elements, the others
\* one, and the elements past the last subspace belong to no subspace, as
\* 624..767 do. Similarities and scores are in ten-thousandths; differences
\* of a few units in the last place of a double are below that resolution.

VectorSize == 7

Infinity == 1000000

Subspaces ==
  << [name |-> "values", start |-> 0, end |-> 2, weight |-> 30],
     [name |-> "interests", start |-> 2, end |-> 3, weight |-> 25],
     [name |-> "communication", start |-> 3, end |-> 4, weight |-> 20],
     [name |-> "lifestyle", start |-> 4, end |-> 5, weight |-> 15],
     [name |-> "goals", start |-> 5, end |-> 6, weight |-> 10] >>

\* Number.isFinite
IsFinite(val) == val # NaN /\ val # Infinity /\ val # -Infinity

IsValidVectorFirstOnly(vector) == vector = << >> \/ IsFinite(vector[1])

IsValidVector(vector) == \A i \in DOMAIN vector : IsFinite(vector[i])

\* validateEmbeddings: TRUE where it returns, FALSE where it throws
ValidateEmbeddings(embedding1, embedding2) ==
  /\ Len(embedding1) = VectorSize
  /\ Len(embedding2) = VectorSize
  /\ IsValidVector(embedding1)
  /\ IsValidVector(embedding2)

\* embedding.slice(subspace.start, subspace.end)
ExtractSubspace(embedding, subspace) ==
  SubSeq(embedding, subspace.start + 1, Min(subspace.end, Len(embedding)))

\* a / b of two finite numbers, truncated
Quot(a, b) == IF a < 0 THEN -((-a) \div b) ELSE a \div b

\* Math.sqrt of the sums of squares that occur, in ten-thousandths
Sqrt(n) ==
  CASE n = 0 -> 0
    [] n = 1 -> 10000
    [] n = 2 -> 14142
    [] n = 3 -> 17320
    [] n = 4 -> 20000

DotProduct(v1, v2) == SumSeq([i \in DOMAIN v1 |-> v1[i] * v2[i]])

CosineSimilarityUnrooted(v1, v2) ==
  LET magnitude1 == DotProduct(v1, v1)
      magnitude2 == DotProduct(v2, v2)
  IN IF magnitude1 = 0 \/ magnitude2 = 0 THEN 0
     ELSE Quot(DotProduct(v1, v2) * 10000, magnitude1 * magnitude2)

CosineSimilarityOneSided(v1, v2) ==
  LET magnitude1 == Sqrt(DotProduct(v1, v1))
      magnitude2 == Sqrt(DotProduct(v2, v2))
  IN IF magnitude1 = 0 \/ magnitude2 = 0 THEN 0
     ELSE Quot(DotProduct(v1, v2) * 100000000,
               (magnitude1 * magnitude1) \div 10000)

\* cosineSimilarity of two slices of one length
CosineSimilarity(v1, v2) ==
  LET magnitude1 == Sqrt(DotProduct(v1, v1))
      magnitude2 == Sqrt(DotProduct(v2, v2))
  IN IF magnitude1 = 0 \/ magnitude2 = 0 THEN 0
     ELSE Quot(DotProduct(v1, v2) * 100000000,
               (magnitude1 * magnitude2) \div 10000)

\* SubspaceResonanceService.calculate past its validation
SubspaceResonance(embedding1, embedding2) ==
  LET weightedSum ==
        SumSeq([i \in DOMAIN Subspaces |->
                  Subspaces[i].weight
                  * CosineSimilarity(ExtractSubspace(embedding1, Subspaces[i]),
                                     ExtractSubspace(embedding2, Subspaces[i]))])
      value == Quot(weightedSum, 100)
  IN IF value < 0 THEN 0 ELSE Min(value, 10000)

\* the 0/1 vectors of the configured width and their negations
Negated(vector) == [i \in DOMAIN vector |-> -vector[i]]
ValidEmbeddings ==
  LET positive == [1..VectorSize -> {0, 1}]
  IN positive \cup {Negated(v) : v \in positive}

Ones == [i \in 1..VectorSize |-> 1]

InvalidEmbeddings ==
  { [Ones EXCEPT ![1] = NaN], [Ones EXCEPT ![VectorSize] = NaN],
    [Ones EXCEPT ![2] = Infinity], [Ones EXCEPT ![VectorSize] = -Infinity],
    SubSeq(Ones, 1, VectorSize - 1), Append(Ones, 1), << >> }

Embeddings == ValidEmbeddings \cup InvalidEmbeddings

\* calculate(embedding1, embedding2) returning a score
SRCalculate(embedding1, embedding2) ==
  /\ ValidateEmbeddings(embedding1, embedding2)
  /\ probe' = [ called |-> TRUE, outcome |-> "returned",
                embedding1 |-> embedding1, embedding2 |-> embedding2,
                sr |-> SubspaceResonance(embedding1, embedding2) ]
  /\ UNCHANGED <<matches, users, indexed, now, runVars, accept,
                 weights, service, result, appVars>>

\* calculate(embedding1, embedding2) throwing from validateEmbeddings
SRCalculateThrows(embedding1, embedding2) ==
  /\ ~ValidateEmbeddings(embedding1, embedding2)
  /\ probe' = [ called |-> TRUE, outcome |-> "threw",
                embedding1 |-> embedding1, embedding2 |-> embedding2,
                sr |-> NoScore ]
  /\ UNCHANGED <<matches, users, indexed, now, runVars, accept,
                 weights, service, result, appVars>>

\* ------------------------------------- SafetyConstraintsService, on its own
SafetyProfiles ==
  [ age : {25, 30, 60},
    redFlags : SUBSET {"fake_profile", "spam_behavior", "unlisted_flag"} ]

Distances == {0, 25, 80, 200}

\* calculateDetailed(user1, user2), the users being distance km apart
SCCalculateDetailed(user1, user2, distance) ==
  /\ probe' = [ called |-> TRUE,
                user1 |-> user1, user2 |-> user2, distance |-> distance,
                redFlagPenalty |-> EvaluateRedFlags(user1.redFlags, user2.redFlags),
                score |-> CalculateSC(user1, user2, distance) ]
  /\ UNCHANGED <<matches, users, indexed, now, runVars, accept,
                 weights, service, result, appVars>>

\* validateSubspaces on a subspace table: TRUE where it returns, FALSE where
\* it throws; weights in hundredths
ValidateSubspaces(table) ==
  /\ \A i \in DOMAIN table :
       /\ ~(table[i].start < 0 \/ table[i].end > VectorSize)
       /\ ~(table[i].start >= table[i].end)
  /\ LET totalWeight == SumSeq([i \in DOMAIN table |-> table[i].weight])
         distance == IF totalWeight >= 100 THEN totalWeight - 100
                     ELSE 100 - totalWeight
     IN ~(distance > 1)

\* subspace tables a configuration may hold: one or two subspaces
SubspaceEntries ==
  [ start : {-1, 0, 2, 4}, end : {0, 2, 4, VectorSize, VectorSize + 1},
    weight : {30, 50, 70, 100} ]

SubspaceTables ==
  {<<a>> : a \in SubspaceEntries}
    \cup {<<a, b>> : a \in SubspaceEntries, b \in SubspaceEntries}

\* new SubspaceResonanceService() over a configuration holding `table`
SRConstruct(table) ==
  /\ ValidateSubspaces(table)
  /\ probe' = [called |-> TRUE, outcome |-> "built", subspaces |-> table]
  /\ UNCHANGED <<matches, users, indexed, now, runVars, accept,
                 weights, service, result, appVars>>

\* the constructor throws from validateSubspaces
SRConstructThrows(table) ==
  /\ ~ValidateSubspaces(table)
  /\ probe' = [called |-> TRUE, outcome |-> "threw", subspaces |-> table]
  /\ UNCHANGED <<matches, users, indexed, now, runVars, accept,
                 weights, service, result, appVars>>

\* -------------------------------------------- CausalUpliftService, on its own
\* A feature is 0.5, NaN or an infinity.

MaxExtraFeatures == 1

FeatureCount == 20

\* the vectors of up to MaxExtraFeatures features more than the count, all
\* 0.5 or with one feature that is not finite
FeatureVectors ==
  UNION { LET base == [i \in 1..n |-> 50]
          IN {base} \cup { [base EXCEPT ![i] = bad] :
                             i \in 1..n, bad \in {NaN, Infinity} } :
          n \in 0..(FeatureCount + MaxExtraFeatures) }

\* extractFeatures: the first features, or the features padded with zeros
ExtractFeatures(features) ==
  IF Len(features) >= FeatureCount
  THEN SubSeq(features, 1, FeatureCount)
  ELSE features \o [i \in 1..(FeatureCount - Len(features)) |-> 0]

\* validateFeatures: TRUE where it returns, FALSE where it throws
ValidateFeatures(features) ==
  /\ Len(features) = FeatureCount
  /\ \A i \in DOMAIN features : IsFinite(features[i])

\* predict(input) returning a result
CUPredict(features) ==
  /\ ValidateFeatures(ExtractFeatures(features))
  /\ probe' = [ called |-> TRUE, outcome |-> "returned",
                features |-> features,
                extracted |-> ExtractFeatures(features) ]
  /\ UNCHANGED <<matches, users, indexed, now, runVars, accept,
                 weights, service, result, appVars>>

\* predict(input) throwing from validateFeatures
CUPredictThrows(features) ==
  /\ ~ValidateFeatures(ExtractFeatures(features))
  /\ probe' = [ called |-> TRUE, outcome |-> "threw",
                features |-> features,
                extracted |-> ExtractFeatures(features) ]
  /\ UNCHANGED <<matches, users, indexed, now, runVars, accept,
                 weights, service, result, appVars>>

\* --------------------------------------------------- AuthService, sessions
\* A refresh token is a JWT of the payload {userId, email} signed with a
\* fixed secret: jwt.sign stamps it with iat, the second of its issue, and
\* exp, so the token is determined by the user and that second. The clock
\* `now` counts seconds.

MaxAuthTime == 1

\* generateTokenPair({userId, email}).refreshToken at the present second
GenerateTokenPair(userId) == [userId |-> userId, iat |-> now]

\* a string that is no token signed with the refresh secret
Forged == [userId |-> "u1", iat |-> -2]

\* verifyRefreshToken: TRUE where it returns a payload
VerifyRefreshToken(token) == token.iat >= 0

\* tokens a client may present: any issued so far, or a forged one
Presentable == {[userId |-> u, iat |-> t] : u \in Users, t \in 0..now} \cup {Forged}

\* storeSession(userId, refreshToken)
StoreSession(userId, refreshToken) ==
  sessions' = [sessions EXCEPT ![userId] = refreshToken]

\* refresh: `session && session === refreshToken`
SessionMatches(refreshToken) ==
  /\ sessions[refreshToken.userId] # NoToken
  /\ sessions[refreshToken.userId] = refreshToken

AuthFrame ==
  UNCHANGED <<matches, users, indexed, runVars, accept, rbsVars,
              messages, dates, dateCall>>

\* login with valid credentials: a new token pair, stored as the session
Login(u) ==
  /\ u \in users
  /\ StoreSession(u, GenerateTokenPair(u))
  /\ UNCHANGED <<now, refreshes>>
  /\ AuthFrame

\* POST /api/auth/logout: deleteSession
Logout(u) ==
  /\ sessions' = [sessions EXCEPT ![u] = NoToken]
  /\ UNCHANGED <<now, refreshes>>
  /\ AuthFrame

\* refresh(refreshToken) up to its first throw: the token does not verify,
\* or the session is missing or differs
RefreshRejected(c, refreshToken) ==
  /\ refreshes[c].pc = "idle"
  /\ ~(VerifyRefreshToken(refreshToken) /\ SessionMatches(refreshToken))
  /\ refreshes' = [refreshes EXCEPT ![c] =
                     [pc |-> "failed", presented |-> refreshToken,
                      issued |-> NoToken]]
  /\ UNCHANGED <<now, sessions>>
  /\ AuthFrame

\* refresh(refreshToken) up to the await of userRepo.findById: the token
\* verified and the session read from the cache equals it
RefreshChecked(c, refreshToken) ==
  /\ refreshes[c].pc = "idle"
  /\ VerifyRefreshToken(refreshToken)
  /\ SessionMatches(refreshToken)
  /\ refreshes' = [refreshes EXCEPT ![c] =
                     [pc |-> "checked", presented |-> refreshToken,
                      issued |-> NoToken]]
  /\ UNCHANGED <<now, sessions>>
  /\ AuthFrame

\* refresh, from findById on: the user is gone
RefreshUserGone(c) ==
  /\ refreshes[c].pc = "checked"
  /\ refreshes[c].presented.userId \notin users
  /\ refreshes' = [refreshes EXCEPT ![c].pc = "failed"]
  /\ UNCHANGED <<now, sessions>>
  /\ AuthFrame

\* refresh, from findById on: a new pair is generated, stored and returned
RefreshStore(c) ==
  /\ refreshes[c].pc = "checked"
  /\ refreshes[c].presented.userId \in users
  /\ LET tokens == GenerateTokenPair(refreshes[c].presented.userId)
     IN /\ StoreSession(refreshes[c].presented.userId, tokens)
        /\ refreshes' = [refreshes EXCEPT ![c].pc = "done", ![c].issued = tokens]
  /\ UNCHANGED now
  /\ AuthFrame

\* a second passes
Second ==
  /\ now' = now + 1
  /\ UNCHANGED <<sessions, refreshes>>
  /\ AuthFrame

\* ------------------------------------------- RBSService, the formula alone
\* The weighted combination of calculate on four finite components; weights
\* and components in hundredths, the total exact in ten-thousandths.

ComponentValues == {0, 10, 75, 80, 90, 100}

Components ==
  [sr : ComponentValues, cu : ComponentValues, ig : ComponentValues,
   sc : ComponentValues]

\* a formula that adds the safety term
ApplyFormulaAdding(w, c) ==
  LET value == (w.alpha * c.sr) + (w.beta * c.cu) + (w.gamma * c.ig)
               + (w.delta * c.sc)
  IN IF value < 0 THEN 0 ELSE Min(value, 10000)

\* clamp(alpha * sr + beta * cu + gamma * ig - delta * sc, 0, 1)
ApplyFormula(w, c) ==
  LET value == (w.alpha * c.sr) + (w.beta * c.cu) + (w.gamma * c.ig)
               - (w.delta * c.sc)
  IN IF value < 0 THEN 0 ELSE Min(value, 10000)

\* calculate, from the four components on
Combine(c) ==
  /\ probe' = [called |-> TRUE, components |-> c,
               total |-> ApplyFormula(weights, c)]
  /\ UNCHANGED <<matches, users, indexed, now, runVars, accept,
                 weights, service, result, appVars>>

\* ------------------------------------------- discovery, the candidate sizes
\* The sizes of the lists of one discovery request, for the limits a request
\* may carry and the numbers of points the index may hold.

MinLimit == 1
MaxPageLimit == 100

\* what parseInt makes of the limit parameter
RequestedLimits == 0..(MaxPageLimit + 1) \cup {NaN}

PointCounts == {0, 49, 50, 51, 100, 150}

\* validatePagination: TRUE where it returns the limit
ValidatePagination(lim) == ~(Less(lim, MinLimit) \/ Greater(lim, MaxPageLimit))

\* GET /api/matches/discover up to the loop: the numbers of candidates that
\* searchSimilar(vector, 100) returns and that slice(0, 50) keeps
DiscoverSizes(lim, points) ==
  /\ ValidatePagination(lim)
  /\ probe' = [called |-> TRUE, outcome |-> "searched", limit |-> lim,
               points |-> points,
               fetched |-> Min(KnnLimit, points),
               examined |-> Min(SliceSize, Min(KnnLimit, points))]
  /\ UNCHANGED <<matches, users, indexed, now, runVars, accept,
                 weights, service, result, appVars>>

\* validatePagination answers 400
DiscoverBadLimit(lim, points) ==
  /\ ~ValidatePagination(lim)
  /\ probe' = [called |-> TRUE, outcome |-> "refused", limit |-> lim,
               points |-> points, fetched |-> 0, examined |-> 0]
  /\ UNCHANGED <<matches, users, indexed, now, runVars, accept,
                 weights, service, result, appVars>>

\* ------------------------------------------------------ the age-gap penalty

\* calls of calculateAgeGapPenalty made in one behaviour
MaxAgeCalls == 2

\* ages of the two users, neither of whom has an age preference
AgesOne == {20, 30}
AgesTwo == 18..48

\* calculateAgeGapPenalty(user1, user2, flags), the call and its result kept
AgeGapPenalty(age1, age2) ==
  /\ probe' = [called |-> Len(probe.calls) + 1 >= MaxAgeCalls,
               calls |-> Append(probe.calls,
                                [age1 |-> age1, age2 |-> age2,
                                 penalty |->
                                   CalculateAgeGapPenalty(age1, age2)])]
  /\ UNCHANGED <<matches, users, indexed, now, runVars, accept,
                 weights, service, result, appVars>>

\* ---------------------------------------------------------- MessagingService

\* messages stored in one behaviour
MaxMessages == 2

\* the authenticated users who send: the two of the table and a third one
Senders == Users \cup {"u3"}

\* the row messageRepo.create stores; the content plays no part in the checks
NewMessage(matchId, senderId, receiverId) ==
  [matchId |-> matchId, senderId |-> senderId, receiverId |-> receiverId,
   status |-> "sent"]

\* sendMessage({matchId, senderId, content}): the row is found, is accepted
\* and holds the sender; the message is created
SendMessage(senderId, matchId) ==
  /\ Len(messages) < MaxMessages
  /\ matchId \in DOMAIN matches
  /\ matches[matchId].status = "accepted"
  /\ senderId \in {matches[matchId].userId, matches[matchId].matchedUserId}
  /\ LET receiverId == IF matches[matchId].userId = senderId
                       THEN matches[matchId].matchedUserId
                       ELSE matches[matchId].userId
     IN messages' = Append(messages, NewMessage(matchId, senderId, receiverId))
  /\ probe' = [called |-> TRUE, outcome |-> "sent"]
  /\ UNCHANGED <<matches, users, indexed, now, runVars, accept,
                 weights, service, result, sessions, refreshes, dates,
                 dateCall>>

\* sendMessage throws and stores nothing
SendMessageThrows(senderId, matchId) ==
  /\ \/ /\ matchId \notin DOMAIN matches
        /\ probe' = [called |-> TRUE, outcome |-> "Match not found"]
     \/ /\ matchId \in DOMAIN matches
        /\ matches[matchId].status # "accepted"
        /\ probe' = [called |-> TRUE,
                     outcome |-> "Cannot send message to non-accepted match"]
     \/ /\ matchId \in DOMAIN matches
        /\ matches[matchId].status = "accepted"
        /\ senderId \notin {matches[matchId].userId,
                            matches[matchId].matchedUserId}
        /\ probe' = [called |-> TRUE,
                     outcome |-> "Unauthorized to send message in this match"]
  /\ UNCHANGED <<matches, users, indexed, now, runVars, accept,
                 weights, service, result, appVars>>

\* --------------------------------------------------- DateCoordinationService

\* dates proposed in one behaviour
MaxDates == 2

DateIds == 1..(Len(dates) + 1)

\* dateRepo.update(dateId, {status, confirmedAt}): a field that is not handed
\* in is left as it is
DateUpdate(dateId, data) ==
  [dates EXCEPT ![dateId] =
     [@ EXCEPT !.status = data.status,
               !.confirmedAt = IF data.confirmedAt # NoDate
                               THEN data.confirmedAt ELSE @]]

DateOutcome(op, dateId, outcome) ==
  dateCall' = [op |-> op, dateId |-> dateId, outcome |-> outcome]

DateFrame ==
  UNCHANGED <<matches, users, indexed, now, runVars, accept, rbsVars,
              messages, sessions, refreshes>>

\* proposeDate({matchId, proposedBy, ...}): the date is created as proposed
ProposeDate(proposedBy, matchId) ==
  /\ Len(dates) < MaxDates
  /\ matchId \in DOMAIN matches
  /\ matches[matchId].status = "accepted"
  /\ proposedBy \in {matches[matchId].userId, matches[matchId].matchedUserId}
  /\ LET partnerId == IF matches[matchId].userId = proposedBy
                      THEN matches[matchId].matchedUserId
                      ELSE matches[matchId].userId
     IN dates' = Append(dates, [matchId |-> matchId, userId |-> proposedBy,
                                partnerId |-> partnerId,
                                status |-> "proposed",
                                confirmedAt |-> NoDate])
  /\ DateOutcome("propose", Len(dates) + 1, "ok")
  /\ DateFrame

\* proposeDate throws
ProposeDateThrows(proposedBy, matchId) ==
  /\ \/ /\ matchId \notin DOMAIN matches
        /\ DateOutcome("propose", 0, "Match not found")
     \/ /\ matchId \in DOMAIN matches
        /\ matches[matchId].status # "accepted"
        /\ DateOutcome("propose", 0,
                       "Can only schedule dates with accepted matches")
     \/ /\ matchId \in DOMAIN matches
        /\ matches[matchId].status = "accepted"
        /\ proposedBy \notin {matches[matchId].userId,
                              matches[matchId].matchedUserId}
        /\ DateOutcome("propose", 0,
                       "Unauthorized to propose date for this match")
  /\ UNCHANGED dates
  /\ DateFrame

\* confirmDate(dateId, userId): the invited partner confirms a proposed date
ConfirmDate(dateId, userId) ==
  /\ dateId \in DOMAIN dates
  /\ dates[dateId].partnerId = userId
  /\ dates[dateId].status = "proposed"
  /\ dates' = DateUpdate(dateId, [status |-> "confirmed", confirmedAt |-> now])
  /\ DateOutcome("confirm", dateId, "ok")
  /\ DateFrame

\* confirmDate throws
ConfirmDateThrows(dateId, userId) ==
  /\ \/ /\ dateId \notin DOMAIN dates
        /\ DateOutcome("confirm", dateId, "Date not found")
     \/ /\ dateId \in DOMAIN dates
        /\ dates[dateId].partnerId # userId
        /\ DateOutcome("confirm", dateId,
                       "Only the invited partner can confirm the date")
     \/ /\ dateId \in DOMAIN dates
        /\ dates[dateId].partnerId = userId
        /\ dates[dateId].status # "proposed"
        /\ DateOutcome("confirm", dateId, "Date is not in proposed status")
  /\ UNCHANGED dates
  /\ DateFrame

\* cancelDate(dateId, userId): either party cancels, whatever the status
CancelDate(dateId, userId) ==
  /\ dateId \in DOMAIN dates
  /\ userId \in {dates[dateId].userId, dates[dateId].partnerId}
  /\ dates' = DateUpdate(dateId, [status |-> "cancelled",
                                  confirmedAt |-> NoDate])
  /\ DateOutcome("cancel", dateId, "ok")
  /\ DateFrame

\* cancelDate throws
CancelDateThrows(dateId, userId) ==
  /\ \/ /\ dateId \notin DOMAIN dates
        /\ DateOutcome("cancel", dateId, "Date not found")
     \/ /\ dateId \in DOMAIN dates
        /\ userId \notin {dates[dateId].userId, dates[dateId].partnerId}
        /\ DateOutcome("cancel", dateId, "Unauthorized to cancel this date")
  /\ UNCHANGED dates
  /\ DateFrame

\* completeDate(dateId): a confirmed date is marked as completed
CompleteDate(dateId) ==
  /\ dateId \in DOMAIN dates
  /\ dates[dateId].status = "confirmed"
  /\ dates' = DateUpdate(dateId, [status |-> "completed",
                                  confirmedAt |-> NoDate])
  /\ DateOutcome("complete", dateId, "ok")
  /\ DateFrame

\* completeDate throws
CompleteDateThrows(dateId) ==
  /\ \/ /\ dateId \notin DOMAIN dates
        /\ DateOutcome("complete", dateId, "Date not found")
     \/ /\ dateId \in DOMAIN dates
        /\ dates[dateId].status # "confirmed"
        /\ DateOutcome("complete", dateId,
                       "Only confirmed dates can be marked as completed")
  /\ UNCHANGED dates
  /\ DateFrame

\* ------------------------------------------------ RBSService, as actions

\* new RBSService(): the weights are loaded and validated
Construct ==
  /\ service = "unbuilt"
  /\ service' = IF ValidateWeights(weights) THEN "built" ELSE "failed"
  /\ UNCHANGED <<matches, users, indexed, now, runVars, accept, weights, result,
                 probe, appVars>>

\* calculate(input) returns
Calculate(input) ==
  /\ service = "built"
  /\ result = NoResult
  /\ FeaturesFinite(input)
  /\ result' = RBSScore(weights, input)
  /\ UNCHANGED <<matches, users, indexed, now, runVars, accept, weights, service,
                 probe, appVars>>

\* calculate(input) rejects: validateFeatures throws
CalculateThrows(input) ==
  /\ service = "built"
  /\ result = NoResult
  /\ ~FeaturesFinite(input)
  /\ result' = [NoResult EXCEPT !.threw = TRUE]
  /\ UNCHANGED <<matches, users, indexed, now, runVars, accept, weights, service,
                 probe, appVars>>

\* ------------------------------------------------------- specifications

InitRuns ==
  /\ pc = [r \in RunIds |-> "idle"]
  /\ user = [r \in RunIds |-> "u1"]
  /\ limit = [r \in RunIds |-> 1]
  /\ similarUsers = [r \in RunIds |-> << >>]
  /\ idx = [r \in RunIds |-> 1]
  /\ rbsScore = [r \in RunIds |-> NoScore]
  /\ scoredMatches = [r \in RunIds |-> << >>]
  /\ response = [r \in RunIds |-> NoResponse]
  /\ absent = [r \in RunIds |-> {}]
  /\ skipped = [r \in RunIds |-> {}]
  /\ after = [r \in RunIds |-> {}]

InitStore(w) ==
  /\ users = w.users /\ indexed = w.indexed /\ matches = w.matches
  /\ now = 0
  /\ accept = NoAccept

InitService(env) ==
  /\ weights = ConfigWeights(env)
  /\ service = "unbuilt"
  /\ result = NoResult

\* no component service has been called on its own
NoProbe == [called |-> FALSE]

InitProbe == probe = NoProbe

\* no message, no session, no date, no call of the services that use them
InitApp ==
  /\ messages = << >>
  /\ sessions = [u \in Users |-> NoToken]
  /\ refreshes = [c \in Calls |-> NoRefresh]
  /\ dates = << >>
  /\ dateCall = NoDateCall

Init ==
  /\ \E w \in Worlds : InitStore(w)
  /\ InitRuns
  /\ InitService(DefaultEnv)
  /\ InitProbe
  /\ InitApp

Next ==
  \/ \E r \in RunIds : DiscoverNoVector(r)
  \/ \E r \in RunIds : DiscoverSearchFails(r)
  \/ \E r \in RunIds : DiscoverBegin(r)
  \/ \E r \in RunIds : LoopSkipExisting(r)
  \/ \E r \in RunIds : LoopSkipMissing(r)
  \/ \E r \in RunIds : LoopScore(r)
  \/ \E r \in RunIds : LoopScoreFails(r)
  \/ \E r \in RunIds : CreateOk(r)
  \/ \E r \in RunIds : CreateExists(r)
  \/ \E r \in RunIds : CreateFails(r)
  \/ now < MaxTime /\ \E u \in Users, id \in MatchIds : AcceptRefused(u, id)
  \/ now < MaxTime /\ \E u \in Users, id \in MatchIds : AcceptChecked(u, id)
  \/ AcceptUpdate
  \/ now < MaxTime /\ \E id \in MatchIds : RepoAccept(id)
  \/ now < MaxTime /\ \E id \in MatchIds : RepoReject(id)
  \/ now < MaxTime /\ \E id \in MatchIds : MarkAsViewed(id)
  \/ now < MaxTime /\ \E id \in MatchIds, st \in Statuses : UpdateStatus(id, st)
  \/ now < MaxTime /\ ExpireOldMatches

Spec == Init /\ [][Next]_vars

\* the status operations over a table of two pending rows
InitStatus ==
  /\ InitStore([users |-> Users, indexed |-> Users,
                matches |-> <<SeedRow, SeedLate>>])
  /\ InitRuns
  /\ InitService(DefaultEnv)
  /\ InitProbe
  /\ InitApp

NextStatus ==
  \/ now < MaxStatusTime /\ \E u \in Users, id \in MatchIds : AcceptRefused(u, id)
  \/ now < MaxStatusTime /\ \E u \in Users, id \in MatchIds : AcceptChecked(u, id)
  \/ AcceptUpdate
  \/ now < MaxStatusTime /\ \E id \in MatchIds : RepoAccept(id)
  \/ now < MaxStatusTime /\ \E id \in MatchIds : RepoReject(id)
  \/ now < MaxStatusTime /\ \E id \in MatchIds : MarkAsViewed(id)
  \/ now < MaxStatusTime /\ \E id \in MatchIds, st \in Statuses : UpdateStatus(id, st)
  \/ now < MaxStatusTime /\ ExpireOldMatches
  \/ \E u \in Users : MutualMatches(u)

SpecStatus == InitStatus /\ [][NextStatus]_vars

\* the score combiner, started in any environment
InitRBS ==
  /\ InitStore([users |-> Users, indexed |-> Users, matches |-> << >>])
  /\ InitRuns
  /\ \E env \in Envs : InitService(env)
  /\ InitProbe
  /\ InitApp

NextRBS ==
  \/ Construct
  \/ \E input \in Inputs : Calculate(input)
  \/ \E input \in Inputs : CalculateThrows(input)

SpecRBS == InitRBS /\ [][NextRBS]_vars

\* the information gain of a profile that grows trait by trait
InitIG ==
  /\ InitStore([users |-> Users, indexed |-> Users, matches |-> << >>])
  /\ InitRuns
  /\ InitService(DefaultEnv)
  /\ probe = [ called |-> FALSE, profile5D |-> EmptyProfile5D,
               igBefore |-> CalculateDetailed(EmptyProfile5D),
               igAfter |-> CalculateDetailed(EmptyProfile5D) ]
  /\ InitApp

NextIG ==
  \E dimension \in Range(DimensionOrder), confidence \in Confidences :
    SetTrait(dimension, confidence)

SpecIG == InitIG /\ [][NextIG]_vars

\* one call of the subspace resonance on any two embeddings
InitSR ==
  /\ InitStore([users |-> Users, indexed |-> Users, matches |-> << >>])
  /\ InitRuns
  /\ InitService(DefaultEnv)
  /\ InitProbe
  /\ InitApp

NextSR ==
  /\ ~probe.called
  /\ \E embedding1 \in Embeddings, embedding2 \in Embeddings :
       \/ SRCalculate(embedding1, embedding2)
       \/ SRCalculateThrows(embedding1, embedding2)

SpecSR == InitSR /\ [][NextSR]_vars

\* one safety evaluation of any two users
InitSC ==
  /\ InitStore([users |-> Users, indexed |-> Users, matches |-> << >>])
  /\ InitRuns
  /\ InitService(DefaultEnv)
  /\ InitProbe
  /\ InitApp

NextSC ==
  /\ ~probe.called
  /\ \E user1 \in SafetyProfiles, user2 \in SafetyProfiles, distance \in Distances :
       SCCalculateDetailed(user1, user2, distance)

SpecSC == InitSC /\ [][NextSC]_vars

\* one prediction of the causal uplift for any feature vector
InitCU ==
  /\ InitStore([users |-> Users, indexed |-> Users, matches |-> << >>])
  /\ InitRuns
  /\ InitService(DefaultEnv)
  /\ InitProbe
  /\ InitApp

NextCU ==
  /\ ~probe.called
  /\ \E features \in FeatureVectors :
       \/ CUPredict(features)
       \/ CUPredictThrows(features)

SpecCU == InitCU /\ [][NextCU]_vars

\* the construction of the subspace resonance over any subspace table
InitSRBuild ==
  /\ InitStore([users |-> Users, indexed |-> Users, matches |-> << >>])
  /\ InitRuns
  /\ InitService(DefaultEnv)
  /\ InitProbe
  /\ InitApp

NextSRBuild ==
  /\ ~probe.called
  /\ \E table \in SubspaceTables :
       \/ SRConstruct(table)
       \/ SRConstructThrows(table)

SpecSRBuild == InitSRBuild /\ [][NextSRBuild]_vars

\* logins, logouts and two refresh calls over the session cache; the users
\* table may have lost a user whose session is still cached
InitAuth ==
  /\ \E present \in {Users, {"u1"}} :
       InitStore([users |-> present, indexed |-> Users, matches |-> << >>])
  /\ InitRuns
  /\ InitService(DefaultEnv)
  /\ InitProbe
  /\ messages = << >>
  /\ \E cached \in {NoToken, [userId |-> "u2", iat |-> 0]} :
       sessions = [u \in Users |-> IF u = "u2" THEN cached ELSE NoToken]
  /\ refreshes = [c \in Calls |-> NoRefresh]
  /\ dates = << >>
  /\ dateCall = NoDateCall

NextAuth ==
  \/ \E u \in Users : Login(u)
  \/ \E u \in Users : Logout(u)
  \/ \E c \in Calls, refreshToken \in Presentable : RefreshRejected(c, refreshToken)
  \/ \E c \in Calls, refreshToken \in Presentable : RefreshChecked(c, refreshToken)
  \/ \E c \in Calls : RefreshUserGone(c)
  \/ \E c \in Calls : RefreshStore(c)
  \/ now < MaxAuthTime /\ Second

SpecAuth == InitAuth /\ [][NextAuth]_vars

\* the formula of the score applied to any four components under the
\* default weights
InitFormula ==
  /\ InitStore([users |-> Users, indexed |-> Users, matches |-> << >>])
  /\ InitRuns
  /\ InitService(DefaultEnv)
  /\ InitProbe
  /\ InitApp

NextFormula ==
  /\ ~probe.called
  /\ \E c \in Components : Combine(c)

SpecFormula == InitFormula /\ [][NextFormula]_vars

\* one discovery request by its sizes
InitSizes ==
  /\ InitStore([users |-> Users, indexed |-> Users, matches |-> << >>])
  /\ InitRuns
  /\ InitService(DefaultEnv)
  /\ InitProbe
  /\ InitApp

NextSizes ==
  /\ ~probe.called
  /\ \E lim \in RequestedLimits, points \in PointCounts :
       \/ DiscoverSizes(lim, points)
       \/ DiscoverBadLimit(lim, points)

SpecSizes == InitSizes /\ [][NextSizes]_vars

InitAge ==
  /\ InitStore([users |-> Users, indexed |-> Users, matches |-> << >>])
  /\ InitRuns
  /\ InitService(DefaultEnv)
  /\ probe = [called |-> FALSE, calls |-> << >>]
  /\ InitApp

NextAge ==
  /\ ~probe.called
  /\ \E age1 \in AgesOne, age2 \in AgesTwo : AgeGapPenalty(age1, age2)

SpecAge == InitAge /\ [][NextAge]_vars

\* messages sent while the two seeded rows are accepted and rejected
NextMsg ==
  \/ now < MaxStatusTime /\ \E id \in MatchIds : RepoAccept(id)
  \/ now < MaxStatusTime /\ \E id \in MatchIds : RepoReject(id)
  \/ \E s \in Senders, id \in MatchIds : SendMessage(s, id)
  \/ \E s \in Senders, id \in MatchIds : SendMessageThrows(s, id)

SpecMsg == InitStatus /\ [][NextMsg]_vars

\* dates between the users of the two seeded rows, of which the first has
\* been accepted
InitDate ==
  /\ InitStore([users |-> Users, indexed |-> Users,
                matches |-> <<[SeedRow EXCEPT !.status = "accepted"],
                              SeedLate>>])
  /\ InitRuns
  /\ InitService(DefaultEnv)
  /\ InitProbe
  /\ InitApp

NextDate ==
  \/ \E u \in Senders, id \in MatchIds : ProposeDate(u, id)
  \/ \E u \in Senders, id \in MatchIds : ProposeDateThrows(u, id)
  \/ \E id \in DateIds, u \in Senders : ConfirmDate(id, u)
  \/ \E id \in DateIds, u \in Senders : ConfirmDateThrows(id, u)
  \/ \E id \in DateIds, u \in Senders : CancelDate(id, u)
  \/ \E id \in DateIds, u \in Senders : CancelDateThrows(id, u)
  \/ \E id \in DateIds : CompleteDate(id)
  \/ \E id \in DateIds : CompleteDateThrows(id)

SpecDate == InitDate /\ [][NextDate]_vars

\* ------------------------------------------------------------- properties

SamePair(a, b) == a.userId = b.userId /\ a.matchedUserId = b.matchedUserId

\* candidates for which run r created a row
Created(r) == {scoredMatches[r][i].userId : i \in DOMAIN scoredMatches[r]}

\* C1: in every reachable state the matches table holds at most one row per
\* ordered pair (userId, matchedUserId), whatever the interleaving of
\* discovery runs and status operations.
C1_OneRowPerPair ==
  \A i, j \in DOMAIN matches : SamePair(matches[i], matches[j]) => i = j

\* two runs of the same user both found no row for a candidate, both have
\* returned, and the pair has a row
C1_Witness ==
  \E r, q \in RunIds :
    /\ r # q /\ user[r] = user[q]
    /\ pc[r] = "done" /\ pc[q] = "done"
    /\ \E c \in absent[r] \cap absent[q] : FindByUserPair(user[r], c) # NoRow

ScoringFailed(r) ==
  /\ pc[r] = "loop"
  /\ FindByUserPair(user[r], Candidate(r)) = NoRow
  /\ Candidate(r) \in users
  /\ pc'[r] # "create"
  /\ pc'[r] # pc[r] \/ idx'[r] # idx[r]

\* C3: when scoring one candidate fails, the candidate is skipped and the run
\* continues; the call returns a result, not an error.
C3_ScoringFailureIsSkipped ==
  [][\A r \in RunIds : ScoringFailed(r) => response'[r].kind # "error"]_vars

\* run q is the second of two runs in succession for the same user over the
\* same candidate list, and both have returned a result
Successive(r, q) ==
  /\ r # q
  /\ r \in after[q]
  /\ pc[q] = "done"
  /\ user[r] = user[q]
  /\ similarUsers[r] = similarUsers[q]
  /\ response[r].kind = "ok" /\ response[q].kind = "ok"

C6_StatusOnlyLeavesPending ==
  [][\A id \in DOMAIN matches :
       matches'[id].status # matches[id].status =>
         /\ matches[id].status = "pending"
         /\ matches'[id].status \in {"accepted", "rejected", "expired"}]_vars

C8_ScoresNeverChange ==
  [][\A id \in DOMAIN matches :
       /\ id \in DOMAIN matches'
       /\ matches'[id].rbsScore = matches[id].rbsScore
       /\ matches'[id].srScore = matches[id].srScore
       /\ matches'[id].cuScore = matches[id].cuScore
       /\ matches'[id].igScore = matches[id].igScore
       /\ matches'[id].scScore = matches[id].scScore]_vars

\* a row created by a discovery run has since been accepted, rejected or
\* viewed
C8_Witness ==
  \E id \in DOMAIN matches :
    /\ matches[id].status # "pending" \/ matches[id].viewedAt # NoDate
    /\ \E r \in RunIds : matches[id].userId = user[r]
                         /\ matches[id].matchedUserId \in Created(r)
\* the constraints on the weights: alpha + beta + gamma within 0.01 of 1,
\* delta in [0, 0.3], alpha, beta and gamma above 0
WeightsWithinConstraints(w) ==
  /\ ~IsNaN(w.alpha) /\ ~IsNaN(w.beta) /\ ~IsNaN(w.gamma) /\ ~IsNaN(w.delta)
  /\ w.alpha + w.beta + w.gamma - 100 <= 1
  /\ 100 - (w.alpha + w.beta + w.gamma) <= 1
  /\ 0 <= w.delta /\ w.delta <= 30
  /\ w.alpha > 0 /\ w.beta > 0 /\ w.gamma > 0

\* C9: constructing the score combiner fails for every weight configuration
\* that breaks the constraints, so a constructed service has weights that
\* keep them.
C9_BuiltOnlyWithinConstraints ==
  service = "built" => WeightsWithinConstraints(weights)

InUnit(x) == ~IsNaN(x) /\ 0 <= x /\ x <= 100

\* C10: whenever RBSService.calculate has returned, each of sr, cu, ig, sc and
\* total lies in [0, 1].
C10_ScoresInUnit ==
  result.returned =>
    /\ InUnit(result.sr) /\ InUnit(result.cu) /\ InUnit(result.ig)
    /\ InUnit(result.sc) /\ InUnit(result.total)

\* the same, for a service whose weights keep the constraints
C10_ScoresInUnitUnderValidWeights ==
  (result.returned /\ WeightsWithinConstraints(weights)) =>
    /\ InUnit(result.sr) /\ InUnit(result.cu) /\ InUnit(result.ig)
    /\ InUnit(result.sc) /\ InUnit(result.total)
\* alpha*sr + beta*cu + gamma*ig - delta*sc over the fields of a result
WeightedTotal(w, res) ==
  Minus(Plus(Plus(Times(w.alpha, res.sr), Times(w.beta, res.cu)),
             Times(w.gamma, res.ig)),
        Times(w.delta, res.sc))

\* C11: the total of a result of RBSService.calculate is
\* alpha*sr + beta*cu + gamma*ig - delta*sc clamped to [0, 1], over the
\* components of the same result and the configured weights.
C11_TotalIsClampedWeightedSum ==
  result.returned =>
    result.total = Clamp(WeightedTotal(weights, result), 0, 100)

\* a result whose safety term is above 0 and whose total is strictly inside
\* [0, 1], so that the total shows the sign of the safety term
C11_Witness ==
  /\ result.returned
  /\ InUnit(result.total) /\ 0 < result.total /\ result.total < 100
  /\ ~IsNaN(weights.delta) /\ ~IsNaN(result.sc)
  /\ Times(weights.delta, result.sc) > 0
\* C12: adding a trait that a profile lacks, in any dimension and with any
\* confidence in [0, 1], never lowers the information-gain score of the
\* profile.
C12_AddingATraitNeverLowersIG ==
  probe.called => probe.igAfter.score >= probe.igBefore.score

NonZero(vector) == \E i \in DOMAIN vector : vector[i] # 0

SameValidEmbedding ==
  probe.called /\ probe.outcome = "returned" /\ probe.embedding1 = probe.embedding2

C14_ResonanceIsSymmetric ==
  (probe.called /\ probe.outcome = "returned")
    => probe.sr = SubspaceResonance(probe.embedding2, probe.embedding1)

C14_Witness ==
  /\ probe.called /\ probe.outcome = "returned"
  /\ probe.embedding1 # probe.embedding2
  /\ DotProduct(ExtractSubspace(probe.embedding1, Subspaces[1]),
                ExtractSubspace(probe.embedding1, Subspaces[1]))
       # DotProduct(ExtractSubspace(probe.embedding2, Subspaces[1]),
                    ExtractSubspace(probe.embedding2, Subspaces[1]))
  /\ 0 < probe.sr /\ probe.sr < 10000

BadEmbedding(embedding) ==
  \/ Len(embedding) # VectorSize
  \/ \E i \in DOMAIN embedding :
       embedding[i] \in {NaN, Infinity, -Infinity}

\* C19: calculate fails with an error and returns no score whenever either
\* embedding has a length other than the configured width or holds a
\* non-finite element (NaN or an infinity).
C19_BadEmbeddingThrows ==
  (probe.called /\ (BadEmbedding(probe.embedding1) \/ BadEmbedding(probe.embedding2)))
    => (probe.outcome = "threw" /\ probe.sr = NoScore)

C19_Witness ==
  /\ probe.called /\ probe.outcome = "threw"
  /\ Len(probe.embedding1) = VectorSize /\ ~BadEmbedding(probe.embedding1)
  /\ Len(probe.embedding2) = VectorSize
  /\ probe.embedding2[VectorSize] = NaN

\* C15: if either user carries a critical red flag (severity 1.0), the
\* safety evaluation returns the maximum penalty, score 1.0, whatever the
\* distance and the age gap between the two users.
C15_CriticalFlagGivesMaximumPenalty ==
  ( /\ probe.called
    /\ \E flag \in probe.user1.redFlags \cup probe.user2.redFlags :
         Severity(flag) >= 100 )
    => probe.score = 100

\* the rows of u that are accepted and whose reverse row exists and is
\* accepted, in the store as it is
MutualRows(u) ==
  { id \in DOMAIN matches :
      /\ matches[id].userId = u
      /\ matches[id].status = "accepted"
      /\ \E rev \in DOMAIN matches :
           /\ matches[rev].userId = matches[id].matchedUserId
           /\ matches[rev].matchedUserId = u
           /\ matches[rev].status = "accepted" }

\* C16: findMutualMatches(u) returns exactly the accepted rows (u, v) whose
\* reverse row (v, u) exists and is accepted too; a pair with one direction
\* accepted only is never returned.
C16_MutualNeedsBothAccepted ==
  [][probe' # probe => probe'.mutual = MutualRows(probe'.userId)]_vars

C16_Witness ==
  /\ probe.called
  /\ probe.mutual # {}
  /\ \A id \in probe.mutual : matches[id].status = "accepted"
  /\ \E id \in DOMAIN matches : matches[id].userId # probe.userId
                                /\ matches[id].status = "accepted"

\* C17: when the requesting user has no embedding, discovery returns an
\* empty list with the insufficient-data signal, not an error, makes no
\* k-NN query and creates no row.
C17_NoEmbeddingIsInsufficientData ==
  \A r \in RunIds :
    (pc[r] # "idle" /\ user[r] \notin indexed) =>
      /\ pc[r] = "done"
      /\ response[r].kind = "insufficient"
      /\ response[r].matches = << >>
      /\ similarUsers[r] = << >>
      /\ scoredMatches[r] = << >>
      /\ \A id \in DOMAIN matches :
           id > Len(<<SeedRow>>) => matches[id].userId # user[r]

C17_Witness ==
  \E r, q \in RunIds :
    /\ pc[r] = "done" /\ user[r] \notin indexed
    /\ user[r] \in users
    /\ response[r].kind = "insufficient"
    /\ pc[q] = "done" /\ response[q].kind = "ok" /\ scoredMatches[q] # << >>

C20_NonFiniteFeatureThrows ==
  ( /\ probe.called
    /\ \E i \in DOMAIN probe.features :
         probe.features[i] \in {NaN, Infinity, -Infinity} )
    => probe.outcome = "threw"

\* two subspaces of the table share an index
Overlapping(table) ==
  \E i, j \in DOMAIN table :
    /\ i # j
    /\ table[i].start < table[j].end
    /\ table[j].start < table[i].end

\* C21: constructing SubspaceResonance fails for every subspace table that
\* has a range outside [0, W), a start that is not below its end, weights
\* that do not sum to 1.0 within 0.01, or two overlapping subspaces.
C21_BrokenTableFailsConstruction ==
  ( /\ probe.called
    /\ \/ \E i \in DOMAIN probe.subspaces :
            \/ probe.subspaces[i].start < 0
            \/ probe.subspaces[i].end > VectorSize
            \/ probe.subspaces[i].start >= probe.subspaces[i].end
       \/ SumSeq([i \in DOMAIN probe.subspaces |-> probe.subspaces[i].weight])
            \notin 99..101
       \/ Overlapping(probe.subspaces) )
    => probe.outcome = "threw"

\* the same without the overlap: what validateSubspaces does check
C21_CheckedConstraintsFailConstruction ==
  ( /\ probe.called
    /\ \/ \E i \in DOMAIN probe.subspaces :
            \/ probe.subspaces[i].start < 0
            \/ probe.subspaces[i].end > VectorSize
            \/ probe.subspaces[i].start >= probe.subspaces[i].end
       \/ SumSeq([i \in DOMAIN probe.subspaces |-> probe.subspaces[i].weight])
            \notin 99..101 )
    => probe.outcome = "threw"

\* C22: an accept request for a row that is already accepted or already
\* rejected is refused with an error and leaves the row unchanged: a request
\* either ends with an error code and no write, or passes its checks on a
\* row that is neither accepted nor rejected.
C22_AcceptOfSettledRowIsRefused ==
  [][(accept.pc = "idle" /\ accept' # accept) =>
       /\ matches' = matches
       /\ \/ accept'.pc = "idle" /\ accept'.code \in {400, 403, 404}
          \/ /\ accept'.pc = "update"
             /\ matches[accept'.matchId].status \notin {"accepted", "rejected"}]_vars

C22_Witness ==
  /\ accept.pc = "idle" /\ accept.code = 400
  /\ \E id \in DOMAIN matches :
       /\ matches[id].status = "accepted"
       /\ matches[id].respondedAt = NoDate

\* C23, first half: a refresh gets past its check only when the presented
\* token equals the session stored for its user.
C23_RefreshNeedsTheStoredToken ==
  [][\A c \in Calls :
       (refreshes[c].pc = "idle" /\ refreshes'[c].pc = "checked") =>
         sessions[refreshes'[c].presented.userId] = refreshes'[c].presented]_vars

\* C23: refresh tokens rotate: once a refresh presenting a token has
\* succeeded, or the user has logged out, a refresh that then presents that
\* token is rejected.
C23_PreviousTokenIsRejected ==
  [][\A c, d \in Calls :
       ( /\ refreshes[d].pc = "done"
         /\ refreshes[c].pc = "idle" /\ refreshes'[c].pc # "idle"
         /\ refreshes'[c].presented = refreshes[d].presented )
       => refreshes'[c].pc = "failed"]_vars

\* C29: of two concurrent refresh calls that present the same token, both
\* past their check at once, at most one succeeds.
C29_OneConcurrentRefreshSucceeds ==
  [][\A c, d \in Calls :
       ( /\ c # d
         /\ refreshes[c].pc = "done"
         /\ refreshes[c].issued # refreshes[c].presented
         /\ refreshes[d].pc = "checked"
         /\ refreshes[d].presented = refreshes[c].presented )
       => refreshes'[d].pc # "done"]_vars

\* the scenario: weights 0.45, 0.30, 0.25, 0.15 and components 0.90, 0.75,
\* 0.80, 0.10
Scenario ==
  /\ probe.called
  /\ weights = [alpha |-> 45, beta |-> 30, gamma |-> 25, delta |-> 15]
  /\ probe.components = [sr |-> 90, cu |-> 75, ig |-> 80, sc |-> 10]

\* C24, as stated: in the scenario the combined total is 0.7975.
C24_ScenarioTotalAsStated == Scenario => probe.total = 7975

\* C24, amended: in the scenario the combined total is 0.815.
C24_ScenarioTotal == Scenario => probe.total = 8150

C24_Witness == Scenario /\ probe.total = 8150

\* C25: for every limit from 1 to 100 the number of k-NN candidates a run
\* fetches and examines is larger than the limit, the index holding enough
\* points to serve the query in full.
C25_MoreCandidatesThanLimit ==
  ( /\ probe.called /\ probe.outcome = "searched"
    /\ probe.limit \in 1..100
    /\ probe.points >= 100 )
    => (probe.fetched > probe.limit /\ probe.examined > probe.limit)

\* what does hold: the candidates fetched are never fewer than the limit
C25_FetchedAtLeastLimit ==
  ( /\ probe.called /\ probe.outcome = "searched"
    /\ probe.limit \in 1..100
    /\ probe.points >= 100 )
    => probe.fetched >= probe.limit

AgeGap(call) == MathAbs(Minus(call.age1, call.age2))

\* C27: without age preferences the age-gap penalty is non-decreasing in
\* the absolute age gap: of two calls, the one with the larger gap never
\* gets the smaller penalty.
C27_PenaltyNonDecreasingInGap ==
  \A i, j \in DOMAIN probe.calls :
    AgeGap(probe.calls[i]) <= AgeGap(probe.calls[j])
      => probe.calls[i].penalty <= probe.calls[j].penalty

\* the rows from a to b and from b to a both exist and are accepted
MutuallyAccepted(a, b) ==
  /\ FindByUserPair(a, b) # NoRow
  /\ matches[FindByUserPair(a, b)].status = "accepted"
  /\ FindByUserPair(b, a) # NoRow
  /\ matches[FindByUserPair(b, a)].status = "accepted"

\* C28: sendMessage stores a message only when, at that moment, the rows in
\* both directions between sender and receiver exist and are both accepted.
C28_MessageNeedsMutualMatch ==
  [][ Len(messages') > Len(messages)
        => MutuallyAccepted(messages'[Len(messages')].senderId,
                            messages'[Len(messages')].receiverId) ]_vars

\* C30: a date whose status is completed or cancelled never changes status
\* again, whatever confirm, cancel and complete operations follow.
C30_SettledDateKeepsItsStatus ==
  [][ \A id \in DOMAIN dates :
        dates[id].status \in {"completed", "cancelled"}
          => dates'[id].status = dates[id].status ]_vars

=============================================================================
